---- MODULE Spec2Model ----
(***************************************************************************)
(* Model of src/AI_SIMILARITY/app.py: the Lost and Found similarity        *)
(* matcher (Flask handlers /health and /match, the Firestore fetch, the    *)
(* per-candidate scorer and the score combiner).                           *)
(*                                                                         *)
(* Conventions.                                                            *)
(*  - A Python value that may be None is a tagged record: None, Str(s),    *)
(*    Float(n), Vec(v), Img(name), Dict(f).  Missing is a key that is      *)
(*    absent from a request body, a form or a document.                    *)
(*  - A string the program computes on (a type, a text, a description, a  *)
(*    URL, a collection name) is the sequence of its code points, so that  *)
(*    strip() and lower() are computed as Python computes them on any      *)
(*    string: <<108, 111, 115, 116>> is 'lost'.  A message the program     *)
(*    only emits is a TLA+ string.                                         *)
(*  - A cosine is the exact rational [num, den] of the quotient the code   *)
(*    takes in binary64.  A reported score is an integer number of         *)
(*    hundredths of a percentage point: Float(9692) is the Python float    *)
(*    96.92.  round(x, 2) rounds the exact value of the binary64 x: away   *)
(*    from an exact decimal tie the rational decides it, and on a tie the  *)
(*    expression is evaluated in binary64 (fl_div, fl_mul, fl_add).        *)
(*  - The handlers write no module state: db is assigned once at import    *)
(*    and each request works on its own locals.  The model follows one     *)
(*    /match request through its handler, which stops wherever the code    *)
(*    waits for the network (requests.get at 216 and 143, the Firestore    *)
(*    stream at 102-104); /health is answered and other /match requests    *)
(*    come and go at any of those points, as the threaded server allows.   *)
(***************************************************************************)
EXTENDS Integers, Sequences, FiniteSets, TLC

VARIABLES
    db,         \* the Firestore client, or "None" when initialisation failed (29-45)
    store,      \* the documents of lost_items and found_items
    request,    \* the /match request being followed, NoRequest between requests
    pc,         \* where its handler is: idle, waiting at a call, or done
    env,        \* what the outside has done to the request so far: the
                \* requests.get calls that failed, and whether and where the
                \* stream raised
    response,   \* the status and JSON body the handler returned
    fetched,    \* the collections fetch_items_from_firestore was called for
    results,    \* the handler's results list when it returned
    emb_calls,  \* the embedding calls calculate_similarity made, in order
    health,     \* the answer to a /health request made meanwhile, if any
    others      \* how many other /match requests are in progress (304)

vars ==
    <<db, store, request, pc, env, response, fetched, results, emb_calls,
      health, others>>

----------------------------------------------------------------------------
(* Bounds of the model *)

\* size of the large collection: one more than the 20 matches returned
MaxDocs == 21
\* size of the small collection
SmallDocs == 3
\* the Firestore stream may raise after yielding 0..MaxFailAt documents
MaxFailAt == 2
\* at most this many requests.get calls fail during one request
MaxDown == 1
\* the calls that may fail: the query's (0) and candidates 1..MaxDownAt
MaxDownAt == 2
\* at most this many other /match requests are in progress at once
MaxOthers == 1

----------------------------------------------------------------------------
(* Python values *)

None == [tag |-> "None"]
Missing == [tag |-> "missing"]
Str(s) == [tag |-> "str", val |-> s]
Float(n) == [tag |-> "float", val |-> n]
Vec(v) == [tag |-> "ndarray", val |-> v]
Img(name) == [tag |-> "Image", val |-> name]
\* a mapping, as a function from its keys
Dict(f) == [tag |-> "dict", val |-> f]
EmptyDict == Dict([k \in {} |-> None])

\* Python truthiness of None or a string
Truthy(v) == v.tag # "None" /\ (v.tag = "str" => Len(v.val) > 0)

\* dict.get(key, default)
dict_get(v, default) == IF v = Missing THEN default ELSE v

\* a or b
py_or(a, b) == IF Truthy(a) THEN a ELSE b

\* the code points str.strip() removes: those str.isspace() holds for
Whitespace ==
    (9..13) \cup (28..32) \cup {133, 160, 5760} \cup (8192..8202)
      \cup {8232, 8233, 8239, 8287, 12288}

RECURSIVE lstrip(_)
lstrip(s) ==
    IF s = <<>> THEN s
    ELSE IF Head(s) \in Whitespace THEN lstrip(Tail(s)) ELSE s

RECURSIVE rstrip(_)
rstrip(s) ==
    IF s = <<>> THEN s
    ELSE IF s[Len(s)] \in Whitespace THEN rstrip(SubSeq(s, 1, Len(s) - 1)) ELSE s

\* str.strip()
strip(s) == rstrip(lstrip(s))

Min(S) == CHOOSE x \in S : \A y \in S : x <= y
Max(S) == CHOOSE x \in S : \A y \in S : x >= y

\* the lowercase mappings beyond ASCII of the Unicode database Python
\* carries (14.0), as runs <<first, last, step, delta>>: every step-th code
\* point from first to last lowers to itself plus delta
LowerRuns ==
    {<<192, 214, 1, 32>>, <<216, 222, 1, 32>>, <<256, 302, 2, 1>>,
     <<306, 310, 2, 1>>, <<313, 327, 2, 1>>, <<330, 374, 2, 1>>, <<376, 376, 1, -121>>,
     <<377, 381, 2, 1>>, <<385, 385, 1, 210>>, <<386, 388, 2, 1>>, <<390, 390, 1, 206>>,
     <<391, 391, 1, 1>>, <<393, 394, 1, 205>>, <<395, 395, 1, 1>>, <<398, 398, 1, 79>>,
     <<399, 399, 1, 202>>, <<400, 400, 1, 203>>, <<401, 401, 1, 1>>, <<403, 403, 1, 205>>,
     <<404, 404, 1, 207>>, <<406, 406, 1, 211>>, <<407, 407, 1, 209>>, <<408, 408, 1, 1>>,
     <<412, 412, 1, 211>>, <<413, 413, 1, 213>>, <<415, 415, 1, 214>>, <<416, 420, 2, 1>>,
     <<422, 422, 1, 218>>, <<423, 423, 1, 1>>, <<425, 425, 1, 218>>, <<428, 428, 1, 1>>,
     <<430, 430, 1, 218>>, <<431, 431, 1, 1>>, <<433, 434, 1, 217>>, <<435, 437, 2, 1>>,
     <<439, 439, 1, 219>>, <<440, 440, 1, 1>>, <<444, 444, 1, 1>>, <<452, 452, 1, 2>>,
     <<453, 453, 1, 1>>, <<455, 455, 1, 2>>, <<456, 456, 1, 1>>, <<458, 458, 1, 2>>,
     <<459, 475, 2, 1>>, <<478, 494, 2, 1>>, <<497, 497, 1, 2>>, <<498, 500, 2, 1>>,
     <<502, 502, 1, -97>>, <<503, 503, 1, -56>>, <<504, 542, 2, 1>>, <<544, 544, 1, -130>>,
     <<546, 562, 2, 1>>, <<570, 570, 1, 10795>>, <<571, 571, 1, 1>>, <<573, 573, 1, -163>>,
     <<574, 574, 1, 10792>>, <<577, 577, 1, 1>>, <<579, 579, 1, -195>>, <<580, 580, 1, 69>>,
     <<581, 581, 1, 71>>, <<582, 590, 2, 1>>, <<880, 882, 2, 1>>, <<886, 886, 1, 1>>,
     <<895, 895, 1, 116>>, <<902, 902, 1, 38>>, <<904, 906, 1, 37>>, <<908, 908, 1, 64>>,
     <<910, 911, 1, 63>>, <<913, 929, 1, 32>>, <<932, 939, 1, 32>>, <<975, 975, 1, 8>>,
     <<984, 1006, 2, 1>>, <<1012, 1012, 1, -60>>, <<1015, 1015, 1, 1>>, <<1017, 1017, 1, -7>>,
     <<1018, 1018, 1, 1>>, <<1021, 1023, 1, -130>>, <<1024, 1039, 1, 80>>, <<1040, 1071, 1, 32>>,
     <<1120, 1152, 2, 1>>, <<1162, 1214, 2, 1>>, <<1216, 1216, 1, 15>>, <<1217, 1229, 2, 1>>,
     <<1232, 1326, 2, 1>>, <<1329, 1366, 1, 48>>, <<4256, 4293, 1, 7264>>, <<4295, 4295, 1, 7264>>,
     <<4301, 4301, 1, 7264>>, <<5024, 5103, 1, 38864>>, <<5104, 5109, 1, 8>>, <<7312, 7354, 1, -3008>>,
     <<7357, 7359, 1, -3008>>, <<7680, 7828, 2, 1>>, <<7838, 7838, 1, -7615>>, <<7840, 7934, 2, 1>>,
     <<7944, 7951, 1, -8>>, <<7960, 7965, 1, -8>>, <<7976, 7983, 1, -8>>, <<7992, 7999, 1, -8>>,
     <<8008, 8013, 1, -8>>, <<8025, 8031, 2, -8>>, <<8040, 8047, 1, -8>>, <<8072, 8079, 1, -8>>,
     <<8088, 8095, 1, -8>>, <<8104, 8111, 1, -8>>, <<8120, 8121, 1, -8>>, <<8122, 8123, 1, -74>>,
     <<8124, 8124, 1, -9>>, <<8136, 8139, 1, -86>>, <<8140, 8140, 1, -9>>, <<8152, 8153, 1, -8>>,
     <<8154, 8155, 1, -100>>, <<8168, 8169, 1, -8>>, <<8170, 8171, 1, -112>>, <<8172, 8172, 1, -7>>,
     <<8184, 8185, 1, -128>>, <<8186, 8187, 1, -126>>, <<8188, 8188, 1, -9>>, <<8486, 8486, 1, -7517>>,
     <<8490, 8490, 1, -8383>>, <<8491, 8491, 1, -8262>>, <<8498, 8498, 1, 28>>, <<8544, 8559, 1, 16>>,
     <<8579, 8579, 1, 1>>, <<9398, 9423, 1, 26>>, <<11264, 11311, 1, 48>>, <<11360, 11360, 1, 1>>,
     <<11362, 11362, 1, -10743>>, <<11363, 11363, 1, -3814>>, <<11364, 11364, 1, -10727>>, <<11367, 11371, 2, 1>>,
     <<11373, 11373, 1, -10780>>, <<11374, 11374, 1, -10749>>, <<11375, 11375, 1, -10783>>, <<11376, 11376, 1, -10782>>,
     <<11378, 11378, 1, 1>>, <<11381, 11381, 1, 1>>, <<11390, 11391, 1, -10815>>, <<11392, 11490, 2, 1>>,
     <<11499, 11501, 2, 1>>, <<11506, 11506, 1, 1>>, <<42560, 42604, 2, 1>>, <<42624, 42650, 2, 1>>,
     <<42786, 42798, 2, 1>>, <<42802, 42862, 2, 1>>, <<42873, 42875, 2, 1>>, <<42877, 42877, 1, -35332>>,
     <<42878, 42886, 2, 1>>, <<42891, 42891, 1, 1>>, <<42893, 42893, 1, -42280>>, <<42896, 42898, 2, 1>>,
     <<42902, 42920, 2, 1>>, <<42922, 42922, 1, -42308>>, <<42923, 42923, 1, -42319>>, <<42924, 42924, 1, -42315>>,
     <<42925, 42925, 1, -42305>>, <<42926, 42926, 1, -42308>>, <<42928, 42928, 1, -42258>>, <<42929, 42929, 1, -42282>>,
     <<42930, 42930, 1, -42261>>, <<42931, 42931, 1, 928>>, <<42932, 42946, 2, 1>>, <<42948, 42948, 1, -48>>,
     <<42949, 42949, 1, -42307>>, <<42950, 42950, 1, -35384>>, <<42951, 42953, 2, 1>>, <<42960, 42960, 1, 1>>,
     <<42966, 42968, 2, 1>>, <<42997, 42997, 1, 1>>, <<65313, 65338, 1, 32>>, <<66560, 66599, 1, 40>>,
     <<66736, 66771, 1, 40>>, <<66928, 66938, 1, 39>>, <<66940, 66954, 1, 39>>, <<66956, 66962, 1, 39>>,
     <<66964, 66965, 1, 39>>, <<68736, 68786, 1, 64>>, <<71840, 71871, 1, 32>>, <<93760, 93791, 1, 32>>,
     <<125184, 125217, 1, 34>>}

\* the code points with the property Cased, as ranges <<first, last>>
Cased ==
    {<<65, 90>>, <<97, 122>>, <<170, 170>>, <<181, 181>>, <<186, 186>>,
     <<192, 214>>, <<216, 246>>, <<248, 442>>, <<444, 447>>, <<452, 659>>,
     <<661, 696>>, <<704, 705>>, <<736, 740>>, <<837, 837>>, <<880, 883>>,
     <<886, 887>>, <<890, 893>>, <<895, 895>>, <<902, 902>>, <<904, 906>>,
     <<908, 908>>, <<910, 929>>, <<931, 1013>>, <<1015, 1153>>, <<1162, 1327>>,
     <<1329, 1366>>, <<1376, 1416>>, <<4256, 4293>>, <<4295, 4295>>, <<4301, 4301>>,
     <<4304, 4346>>, <<4349, 4351>>, <<5024, 5109>>, <<5112, 5117>>, <<7296, 7304>>,
     <<7312, 7354>>, <<7357, 7359>>, <<7424, 7615>>, <<7680, 7957>>, <<7960, 7965>>,
     <<7968, 8005>>, <<8008, 8013>>, <<8016, 8023>>, <<8025, 8025>>, <<8027, 8027>>,
     <<8029, 8029>>, <<8031, 8061>>, <<8064, 8116>>, <<8118, 8124>>, <<8126, 8126>>,
     <<8130, 8132>>, <<8134, 8140>>, <<8144, 8147>>, <<8150, 8155>>, <<8160, 8172>>,
     <<8178, 8180>>, <<8182, 8188>>, <<8305, 8305>>, <<8319, 8319>>, <<8336, 8348>>,
     <<8450, 8450>>, <<8455, 8455>>, <<8458, 8467>>, <<8469, 8469>>, <<8473, 8477>>,
     <<8484, 8484>>, <<8486, 8486>>, <<8488, 8488>>, <<8490, 8493>>, <<8495, 8500>>,
     <<8505, 8505>>, <<8508, 8511>>, <<8517, 8521>>, <<8526, 8526>>, <<8544, 8575>>,
     <<8579, 8580>>, <<9398, 9449>>, <<11264, 11492>>, <<11499, 11502>>, <<11506, 11507>>,
     <<11520, 11557>>, <<11559, 11559>>, <<11565, 11565>>, <<42560, 42605>>, <<42624, 42653>>,
     <<42786, 42887>>, <<42891, 42894>>, <<42896, 42954>>, <<42960, 42961>>, <<42963, 42963>>,
     <<42965, 42969>>, <<42997, 42998>>, <<43000, 43002>>, <<43824, 43866>>, <<43868, 43880>>,
     <<43888, 43967>>, <<64256, 64262>>, <<64275, 64279>>, <<65313, 65338>>, <<65345, 65370>>,
     <<66560, 66639>>, <<66736, 66771>>, <<66776, 66811>>, <<66928, 66938>>, <<66940, 66954>>,
     <<66956, 66962>>, <<66964, 66965>>, <<66967, 66977>>, <<66979, 66993>>, <<66995, 67001>>,
     <<67003, 67004>>, <<67456, 67456>>, <<67459, 67461>>, <<67463, 67504>>, <<67506, 67514>>,
     <<68736, 68786>>, <<68800, 68850>>, <<71840, 71903>>, <<93760, 93823>>, <<119808, 119892>>,
     <<119894, 119964>>, <<119966, 119967>>, <<119970, 119970>>, <<119973, 119974>>, <<119977, 119980>>,
     <<119982, 119993>>, <<119995, 119995>>, <<119997, 120003>>, <<120005, 120069>>, <<120071, 120074>>,
     <<120077, 120084>>, <<120086, 120092>>, <<120094, 120121>>, <<120123, 120126>>, <<120128, 120132>>,
     <<120134, 120134>>, <<120138, 120144>>, <<120146, 120485>>, <<120488, 120512>>, <<120514, 120538>>,
     <<120540, 120570>>, <<120572, 120596>>, <<120598, 120628>>, <<120630, 120654>>, <<120656, 120686>>,
     <<120688, 120712>>, <<120714, 120744>>, <<120746, 120770>>, <<120772, 120779>>, <<122624, 122633>>,
     <<122635, 122654>>, <<125184, 125251>>, <<127280, 127305>>, <<127312, 127337>>, <<127344, 127369>>}

\* the code points with the property Case_Ignorable
CaseIgnorable ==
    {<<39, 39>>, <<46, 46>>, <<58, 58>>, <<94, 94>>, <<96, 96>>,
     <<168, 168>>, <<173, 173>>, <<175, 175>>, <<180, 180>>, <<183, 184>>,
     <<688, 879>>, <<884, 885>>, <<890, 890>>, <<900, 901>>, <<903, 903>>,
     <<1155, 1161>>, <<1369, 1369>>, <<1375, 1375>>, <<1425, 1469>>, <<1471, 1471>>,
     <<1473, 1474>>, <<1476, 1477>>, <<1479, 1479>>, <<1524, 1524>>, <<1536, 1541>>,
     <<1552, 1562>>, <<1564, 1564>>, <<1600, 1600>>, <<1611, 1631>>, <<1648, 1648>>,
     <<1750, 1757>>, <<1759, 1768>>, <<1770, 1773>>, <<1807, 1807>>, <<1809, 1809>>,
     <<1840, 1866>>, <<1958, 1968>>, <<2027, 2037>>, <<2042, 2042>>, <<2045, 2045>>,
     <<2070, 2093>>, <<2137, 2139>>, <<2184, 2184>>, <<2192, 2193>>, <<2200, 2207>>,
     <<2249, 2306>>, <<2362, 2362>>, <<2364, 2364>>, <<2369, 2376>>, <<2381, 2381>>,
     <<2385, 2391>>, <<2402, 2403>>, <<2417, 2417>>, <<2433, 2433>>, <<2492, 2492>>,
     <<2497, 2500>>, <<2509, 2509>>, <<2530, 2531>>, <<2558, 2558>>, <<2561, 2562>>,
     <<2620, 2620>>, <<2625, 2626>>, <<2631, 2632>>, <<2635, 2637>>, <<2641, 2641>>,
     <<2672, 2673>>, <<2677, 2677>>, <<2689, 2690>>, <<2748, 2748>>, <<2753, 2757>>,
     <<2759, 2760>>, <<2765, 2765>>, <<2786, 2787>>, <<2810, 2815>>, <<2817, 2817>>,
     <<2876, 2876>>, <<2879, 2879>>, <<2881, 2884>>, <<2893, 2893>>, <<2901, 2902>>,
     <<2914, 2915>>, <<2946, 2946>>, <<3008, 3008>>, <<3021, 3021>>, <<3072, 3072>>,
     <<3076, 3076>>, <<3132, 3132>>, <<3134, 3136>>, <<3142, 3144>>, <<3146, 3149>>,
     <<3157, 3158>>, <<3170, 3171>>, <<3201, 3201>>, <<3260, 3260>>, <<3263, 3263>>,
     <<3270, 3270>>, <<3276, 3277>>, <<3298, 3299>>, <<3328, 3329>>, <<3387, 3388>>,
     <<3393, 3396>>, <<3405, 3405>>, <<3426, 3427>>, <<3457, 3457>>, <<3530, 3530>>,
     <<3538, 3540>>, <<3542, 3542>>, <<3633, 3633>>, <<3636, 3642>>, <<3654, 3662>>,
     <<3761, 3761>>, <<3764, 3772>>, <<3782, 3782>>, <<3784, 3789>>, <<3864, 3865>>,
     <<3893, 3893>>, <<3895, 3895>>, <<3897, 3897>>, <<3953, 3966>>, <<3968, 3972>>,
     <<3974, 3975>>, <<3981, 3991>>, <<3993, 4028>>, <<4038, 4038>>, <<4141, 4144>>,
     <<4146, 4151>>, <<4153, 4154>>, <<4157, 4158>>, <<4184, 4185>>, <<4190, 4192>>,
     <<4209, 4212>>, <<4226, 4226>>, <<4229, 4230>>, <<4237, 4237>>, <<4253, 4253>>,
     <<4348, 4348>>, <<4957, 4959>>, <<5906, 5908>>, <<5938, 5939>>, <<5970, 5971>>,
     <<6002, 6003>>, <<6068, 6069>>, <<6071, 6077>>, <<6086, 6086>>, <<6089, 6099>>,
     <<6103, 6103>>, <<6109, 6109>>, <<6155, 6159>>, <<6211, 6211>>, <<6277, 6278>>,
     <<6313, 6313>>, <<6432, 6434>>, <<6439, 6440>>, <<6450, 6450>>, <<6457, 6459>>,
     <<6679, 6680>>, <<6683, 6683>>, <<6742, 6742>>, <<6744, 6750>>, <<6752, 6752>>,
     <<6754, 6754>>, <<6757, 6764>>, <<6771, 6780>>, <<6783, 6783>>, <<6823, 6823>>,
     <<6832, 6862>>, <<6912, 6915>>, <<6964, 6964>>, <<6966, 6970>>, <<6972, 6972>>,
     <<6978, 6978>>, <<7019, 7027>>, <<7040, 7041>>, <<7074, 7077>>, <<7080, 7081>>,
     <<7083, 7085>>, <<7142, 7142>>, <<7144, 7145>>, <<7149, 7149>>, <<7151, 7153>>,
     <<7212, 7219>>, <<7222, 7223>>, <<7288, 7293>>, <<7376, 7378>>, <<7380, 7392>>,
     <<7394, 7400>>, <<7405, 7405>>, <<7412, 7412>>, <<7416, 7417>>, <<7468, 7530>>,
     <<7544, 7544>>, <<7579, 7679>>, <<8125, 8125>>, <<8127, 8129>>, <<8141, 8143>>,
     <<8157, 8159>>, <<8173, 8175>>, <<8189, 8190>>, <<8203, 8207>>, <<8216, 8217>>,
     <<8228, 8228>>, <<8231, 8231>>, <<8234, 8238>>, <<8288, 8292>>, <<8294, 8303>>,
     <<8305, 8305>>, <<8319, 8319>>, <<8336, 8348>>, <<8400, 8432>>, <<11388, 11389>>,
     <<11503, 11505>>, <<11631, 11631>>, <<11647, 11647>>, <<11744, 11775>>, <<11823, 11823>>,
     <<12293, 12293>>, <<12330, 12333>>, <<12337, 12341>>, <<12347, 12347>>, <<12441, 12446>>,
     <<12540, 12542>>, <<40981, 40981>>, <<42232, 42237>>, <<42508, 42508>>, <<42607, 42610>>,
     <<42612, 42621>>, <<42623, 42623>>, <<42652, 42655>>, <<42736, 42737>>, <<42752, 42785>>,
     <<42864, 42864>>, <<42888, 42890>>, <<42994, 42996>>, <<43000, 43001>>, <<43010, 43010>>,
     <<43014, 43014>>, <<43019, 43019>>, <<43045, 43046>>, <<43052, 43052>>, <<43204, 43205>>,
     <<43232, 43249>>, <<43263, 43263>>, <<43302, 43309>>, <<43335, 43345>>, <<43392, 43394>>,
     <<43443, 43443>>, <<43446, 43449>>, <<43452, 43453>>, <<43471, 43471>>, <<43493, 43494>>,
     <<43561, 43566>>, <<43569, 43570>>, <<43573, 43574>>, <<43587, 43587>>, <<43596, 43596>>,
     <<43632, 43632>>, <<43644, 43644>>, <<43696, 43696>>, <<43698, 43700>>, <<43703, 43704>>,
     <<43710, 43711>>, <<43713, 43713>>, <<43741, 43741>>, <<43756, 43757>>, <<43763, 43764>>,
     <<43766, 43766>>, <<43867, 43871>>, <<43881, 43883>>, <<44005, 44005>>, <<44008, 44008>>,
     <<44013, 44013>>, <<64286, 64286>>, <<64434, 64450>>, <<65024, 65039>>, <<65043, 65043>>,
     <<65056, 65071>>, <<65106, 65106>>, <<65109, 65109>>, <<65279, 65279>>, <<65287, 65287>>,
     <<65294, 65294>>, <<65306, 65306>>, <<65342, 65342>>, <<65344, 65344>>, <<65392, 65392>>,
     <<65438, 65439>>, <<65507, 65507>>, <<65529, 65531>>, <<66045, 66045>>, <<66272, 66272>>,
     <<66422, 66426>>, <<67456, 67461>>, <<67463, 67504>>, <<67506, 67514>>, <<68097, 68099>>,
     <<68101, 68102>>, <<68108, 68111>>, <<68152, 68154>>, <<68159, 68159>>, <<68325, 68326>>,
     <<68900, 68903>>, <<69291, 69292>>, <<69446, 69456>>, <<69506, 69509>>, <<69633, 69633>>,
     <<69688, 69702>>, <<69744, 69744>>, <<69747, 69748>>, <<69759, 69761>>, <<69811, 69814>>,
     <<69817, 69818>>, <<69821, 69821>>, <<69826, 69826>>, <<69837, 69837>>, <<69888, 69890>>,
     <<69927, 69931>>, <<69933, 69940>>, <<70003, 70003>>, <<70016, 70017>>, <<70070, 70078>>,
     <<70089, 70092>>, <<70095, 70095>>, <<70191, 70193>>, <<70196, 70196>>, <<70198, 70199>>,
     <<70206, 70206>>, <<70367, 70367>>, <<70371, 70378>>, <<70400, 70401>>, <<70459, 70460>>,
     <<70464, 70464>>, <<70502, 70508>>, <<70512, 70516>>, <<70712, 70719>>, <<70722, 70724>>,
     <<70726, 70726>>, <<70750, 70750>>, <<70835, 70840>>, <<70842, 70842>>, <<70847, 70848>>,
     <<70850, 70851>>, <<71090, 71093>>, <<71100, 71101>>, <<71103, 71104>>, <<71132, 71133>>,
     <<71219, 71226>>, <<71229, 71229>>, <<71231, 71232>>, <<71339, 71339>>, <<71341, 71341>>,
     <<71344, 71349>>, <<71351, 71351>>, <<71453, 71455>>, <<71458, 71461>>, <<71463, 71467>>,
     <<71727, 71735>>, <<71737, 71738>>, <<71995, 71996>>, <<71998, 71998>>, <<72003, 72003>>,
     <<72148, 72151>>, <<72154, 72155>>, <<72160, 72160>>, <<72193, 72202>>, <<72243, 72248>>,
     <<72251, 72254>>, <<72263, 72263>>, <<72273, 72278>>, <<72281, 72283>>, <<72330, 72342>>,
     <<72344, 72345>>, <<72752, 72758>>, <<72760, 72765>>, <<72767, 72767>>, <<72850, 72871>>,
     <<72874, 72880>>, <<72882, 72883>>, <<72885, 72886>>, <<73009, 73014>>, <<73018, 73018>>,
     <<73020, 73021>>, <<73023, 73029>>, <<73031, 73031>>, <<73104, 73105>>, <<73109, 73109>>,
     <<73111, 73111>>, <<73459, 73460>>, <<78896, 78904>>, <<92912, 92916>>, <<92976, 92982>>,
     <<92992, 92995>>, <<94031, 94031>>, <<94095, 94111>>, <<94176, 94177>>, <<94179, 94180>>,
     <<110576, 110579>>, <<110581, 110587>>, <<110589, 110590>>, <<113821, 113822>>, <<113824, 113827>>,
     <<118528, 118573>>, <<118576, 118598>>, <<119143, 119145>>, <<119155, 119170>>, <<119173, 119179>>,
     <<119210, 119213>>, <<119362, 119364>>, <<121344, 121398>>, <<121403, 121452>>, <<121461, 121461>>,
     <<121476, 121476>>, <<121499, 121503>>, <<121505, 121519>>, <<122880, 122886>>, <<122888, 122904>>,
     <<122907, 122913>>, <<122915, 122916>>, <<122918, 122922>>, <<123184, 123197>>, <<123566, 123566>>,
     <<123628, 123631>>, <<125136, 125142>>, <<125252, 125259>>, <<127995, 127999>>, <<917505, 917505>>,
     <<917536, 917631>>, <<917760, 917999>>}

in_run(c, r) == r[1] <= c /\ c <= r[2] /\ (c - r[1]) % r[3] = 0

in_ranges(c, ranges) == \E r \in ranges : r[1] <= c /\ c <= r[2]

\* the lowercase of a code point that lowers to one code point
to_lower(c) ==
    IF c < 128 THEN (IF 65 <= c /\ c <= 90 THEN c + 32 ELSE c)
    ELSE IF \E r \in LowerRuns : in_run(c, r)
    THEN c + (CHOOSE r \in LowerRuns : in_run(c, r))[4]
    ELSE c

\* whether the capital sigma at s[i] ends a word: a cased character comes
\* before it and none after it, case-ignorable characters skipped
final_sigma(s, i) ==
    LET before == {j \in 1..(i - 1) : ~in_ranges(s[j], CaseIgnorable)}
        after == {j \in (i + 1)..Len(s) : ~in_ranges(s[j], CaseIgnorable)}
    IN  /\ before # {}
        /\ in_ranges(s[Max(before)], Cased)
        /\ after = {} \/ ~in_ranges(s[Min(after)], Cased)

\* what str.lower() puts for s[i]: sigma by its place in the word, two code
\* points for the dotted capital I (U+0130), the table for the rest
lower_char(s, i) ==
    IF s[i] = 931 THEN <<IF final_sigma(s, i) THEN 962 ELSE 963>>
    ELSE IF s[i] = 304 THEN <<105, 775>>
    ELSE <<to_lower(s[i])>>

RECURSIVE lower_upto(_, _)
lower_upto(s, k) ==
    IF k = 0 THEN <<>> ELSE lower_upto(s, k - 1) \o lower_char(s, k)

\* str.lower()
lower(s) == lower_upto(s, Len(s))

----------------------------------------------------------------------------
(* Configuration *)

\* TEXT_WEIGHT = 0.3 and IMAGE_WEIGHT = 0.7, in tenths
TEXT_WEIGHT == 3
IMAGE_WEIGHT == 7
\* results[:20]
TopMatches == 20
\* description[:100] + '...'
DescriptionLimit == 100

----------------------------------------------------------------------------
(* Exact rationals *)

RECURSIVE gcd(_, _)
gcd(a, b) == IF b = 0 THEN a ELSE gcd(b, a % b)

\* the fraction n/d, d > 0, in lowest terms
Rat(n, d) ==
    LET g == gcd(IF n < 0 THEN -n ELSE n, d)
    IN  [num |-> n \div g, den |-> d \div g]
Zero == Rat(0, 1)

\* round-half-to-even of n/d, d > 0 (\div is the floor division)
round_half_even(n, d) ==
    LET q == n \div d
        r == n - q * d
    IN  IF 2 * r < d THEN q
        ELSE IF 2 * r > d THEN q + 1
        ELSE IF q % 2 = 0 THEN q ELSE q + 1

\* n/d lies exactly half way between two integers
is_tie(n, d) == (2 * n) % d = 0 /\ ((2 * n) \div d) % 2 # 0

----------------------------------------------------------------------------
(* binary64 arithmetic, on naturals of any size *)

\* a natural number as its bits, least significant first
RECURSIVE bits(_)
bits(n) == IF n = 0 THEN <<>> ELSE <<n % 2>> \o bits(n \div 2)

RECURSIVE int_of(_)
int_of(a) == IF a = <<>> THEN 0 ELSE Head(a) + 2 * int_of(Tail(a))

bit(a, i) == IF i \in DOMAIN a THEN a[i] ELSE 0

\* without its leading zeros
trim(a) ==
    LET ones == {i \in DOMAIN a : a[i] = 1}
    IN  IF ones = {} THEN <<>>
        ELSE SubSeq(a, 1, CHOOSE i \in ones : \A j \in ones : j <= i)

\* the same number in digits of LimbBits bits, Limb = 2^LimbBits, so that a
\* sum or a product carries in a few steps
LimbBits == 13
Limb == 8192

limbs_of(a) ==
    [k \in 1..((Len(a) + LimbBits - 1) \div LimbBits) |->
        int_of(SubSeq(a, LimbBits * (k - 1) + 1,
                      IF LimbBits * k < Len(a) THEN LimbBits * k ELSE Len(a)))]

widen(a, c) == a \o [i \in 1..(c - Len(a)) |-> 0]

RECURSIVE bits_of(_)
bits_of(ls) ==
    IF ls = <<>> THEN <<>>
    ELSE widen(bits(Head(ls)), LimbBits) \o bits_of(Tail(ls))

RECURSIVE carried(_, _)
\* the digits of a number given as columns that may exceed a digit
carried(cols, carry) ==
    IF cols = <<>> THEN (IF carry = 0 THEN <<>> ELSE <<carry>>)
    ELSE <<(Head(cols) + carry) % Limb>>
         \o carried(Tail(cols), (Head(cols) + carry) \div Limb)

limb(ls, k) == IF k \in DOMAIN ls THEN ls[k] ELSE 0

RECURSIVE column(_, _, _, _)
\* the sum of x[i] * y[k + 1 - i] over i = 1..n
column(x, y, k, n) ==
    IF n = 0 THEN 0 ELSE limb(x, n) * limb(y, k + 1 - n) + column(x, y, k, n - 1)

add(a, b) ==
    LET x == limbs_of(a)
        y == limbs_of(b)
        n == IF Len(x) < Len(y) THEN Len(y) ELSE Len(x)
    IN  trim(bits_of(carried([k \in 1..n |-> limb(x, k) + limb(y, k)], 0)))

\* a - b, for a >= b
sub(a, b) ==
    LET x == limbs_of(a)
        y == limbs_of(b)
    IN  trim(bits_of(carried([k \in 1..Len(x) |-> limb(x, k) - limb(y, k)], 0)))

\* a < b
less(a, b) ==
    \E i \in DOMAIN b :
        /\ bit(a, i) < b[i]
        /\ \A j \in (i + 1)..(Len(a) + Len(b)) : bit(a, j) = bit(b, j)

mul(a, b) ==
    LET x == limbs_of(a)
        y == limbs_of(b)
    IN  trim(bits_of(carried(
            [k \in 1..(Len(x) + Len(y)) |-> column(x, y, k, Len(x))], 0)))

shift_left(a, k) == [i \in 1..k |-> 0] \o a

\* a / 2^k rounded to the nearest integer, a tie to the even one
shift_right_even(a, k) ==
    LET q == IF k < Len(a) THEN SubSeq(a, k + 1, Len(a)) ELSE <<>>
        half == bit(a, k) = 1
        sticky == \E i \in 1..(k - 1) : bit(a, i) = 1
    IN  IF half /\ (sticky \/ bit(q, 1) = 1) THEN add(q, <<1>>) ELSE q

\* the significand of a binary64 has 53 bits
Precision == 53

\* the binary64 nearest to sign * m * 2^e, a tie to the even significand
fl(sign, m, e) ==
    LET k == Len(trim(m)) - Precision
    IN  IF k <= 0 THEN [sign |-> sign, m |-> trim(m), e |-> e]
        ELSE [sign |-> sign, m |-> trim(shift_right_even(trim(m), k)), e |-> e + k]

\* the largest integer of the model, and the powers of two below it
MaxInt == 2147483647
TwoTo ==
    <<2, 4, 8, 16, 32, 64, 128, 256, 512, 1024, 2048, 4096, 8192, 16384, 32768,
      65536, 131072, 262144, 524288, 1048576, 2097152, 4194304, 8388608,
      16777216, 33554432, 67108864, 134217728, 268435456, 536870912, 1073741824>>

\* how many quotient bits one division step can yield, for d < 2^30
chunk(d) ==
    CHOOSE c \in DOMAIN TwoTo :
        /\ TwoTo[c] <= MaxInt \div d
        /\ c < Len(TwoTo) => TwoTo[c + 1] > MaxInt \div d

RECURSIVE expand(_, _, _, _)
\* the first k * c bits of r/d after the binary point, and what is left of r
expand(r, d, c, k) ==
    IF k = 0 THEN [bits |-> <<>>, rem |-> r]
    ELSE LET q == (r * TwoTo[c]) \div d
             rest == expand(r * TwoTo[c] - q * d, d, c, k - 1)
         IN  [bits |-> rest.bits \o widen(bits(q), c), rem |-> rest.rem]

\* bits after the point that leave 53 significant ones of a quotient >= 2^-30
FracBits == Precision + 32

\* n / d in binary64, for integers n and d > 0: the quotient to FracBits
\* places, and one more bit that is set when the division left a remainder
fl_div(n, d) ==
    LET a == IF n < 0 THEN -n ELSE n
        c == chunk(d)
        k == (FracBits + c - 1) \div c
        x == expand(a % d, d, c, k)
    IN  fl(IF n < 0 THEN -1 ELSE 1,
           <<IF x.rem = 0 THEN 0 ELSE 1>> \o x.bits \o bits(a \div d),
           -(k * c + 1))

fl_mul(x, y) == fl(x.sign * y.sign, mul(x.m, y.m), x.e + y.e)

fl_add(x, y) ==
    LET e == IF x.e < y.e THEN x.e ELSE y.e
        a == trim(shift_left(x.m, x.e - e))
        b == trim(shift_left(y.m, y.e - e))
    IN  IF x.sign = y.sign THEN fl(x.sign, add(a, b), e)
        ELSE IF less(a, b) THEN fl(y.sign, sub(b, a), e)
        ELSE fl(x.sign, sub(a, b), e)

fl_int(n) == fl(IF n < 0 THEN -1 ELSE 1, bits(IF n < 0 THEN -n ELSE n), 0)

\* round(y, 2) of a binary64 y, in hundredths: the one nearest to the exact
\* value of y, a tie to the even one
round_2(y) ==
    LET n == mul(y.m, bits(100))
    IN  y.sign * int_of(IF y.e >= 0 THEN shift_left(n, y.e)
                        ELSE shift_right_even(n, -y.e))

----------------------------------------------------------------------------
(* Scores *)

\* TEXT_WEIGHT * t + IMAGE_WEIGHT * i, not yet evaluated
Weighted(t, i) == [text |-> t, image |-> i]
is_weighted(x) == "text" \in DOMAIN x

\* the exact value of a score: a cosine, or the weighted sum of two
exact(x) ==
    IF is_weighted(x)
    THEN Rat(TEXT_WEIGHT * x.text.num * x.image.den
               + IMAGE_WEIGHT * x.image.num * x.text.den,
             10 * x.text.den * x.image.den)
    ELSE x

\* the binary64 the code holds for a score
binary64(x) ==
    IF is_weighted(x)
    THEN fl_add(fl_mul(fl_div(TEXT_WEIGHT, 10), fl_div(x.text.num, x.text.den)),
                fl_mul(fl_div(IMAGE_WEIGHT, 10), fl_div(x.image.num, x.image.den)))
    ELSE fl_div(x.num, x.den)

\* round(float(x * 100), 2) computed in binary64
round_binary64(x) == round_2(fl_mul(binary64(x), fl_int(100)))

\* round(float(x * 100), 2), as hundredths of a percentage point.  Off a tie
\* the exact value is at least 1/(2 * den) > 2 * 10^-10 hundredths from one
\* and the binary64 value within 10^-11 of it, so both round alike.
round_percent(x) ==
    IF is_tie(10000 * exact(x).num, exact(x).den)
    THEN round_binary64(x)
    ELSE round_half_even(10000 * exact(x).num, exact(x).den)

----------------------------------------------------------------------------
(* Collaborators: the embedding models and the images behind the URLs.     *)
(* Each is a deterministic function of its input, as a loaded model is.    *)

u1 == <<117, 49>>
u2 == <<117, 50>>
u3 == <<117, 51>>
u4 == <<117, 52>>
ImageUrls == {u1, u2, u3, u4}

\* the decoded image served at a URL (u1..u4 are 'u1'..'u4')
image_at(url) ==
    CASE url = u1 -> Img("imgA") [] url = u2 -> Img("imgB")
      [] url = u4 -> Img("imgC") [] OTHER -> Img("imgX")

\* text_model.encode(text): the vector of the text's first visible character
\* ('a', 'b', 'c', 'd'; any other text embeds as the zero vector)
text_model_encode(text) ==
    LET c == Head(strip(text))
    IN  CASE c = 97 -> <<3, 4>>
          [] c = 98 -> <<5, 12>>
          [] c = 99 -> <<-3, -4>>
          [] c = 100 -> <<-4, 3>>
          [] OTHER -> <<0, 0>>

\* image_model.encode(img); imgX is an image the model raises on
image_model_raises(img) == img.val = "imgX"

image_model_encode(img) ==
    CASE img.val = "imgA" -> <<3, 4>>
      [] img.val = "imgB" -> <<12, 5>>
      [] OTHER -> <<-4, 3>>

----------------------------------------------------------------------------
(* load_image_from_url, cosine_similarity, get_*_embedding *)

\* one call: when requests.get raises the except clause returns None
load_image_from_url(url, get_raises) ==
    IF get_raises THEN None ELSE image_at(url.val)

dot(v, w) == v[1] * w[1] + v[2] * w[2]

\* np.linalg.norm; the model's vectors have integer norms
norm(v) == CHOOSE n \in 0..dot(v, v) : n * n = dot(v, v)

cosine_similarity(vec1, vec2) ==
    LET dot_product == dot(vec1, vec2)
        norm1 == norm(vec1)
        norm2 == norm(vec2)
    IN  IF norm1 * norm2 > 0 THEN Rat(dot_product, norm1 * norm2) ELSE Zero

get_text_embedding(text) ==
    IF ~Truthy(text) \/ strip(text.val) = <<>> THEN None
    ELSE Vec(text_model_encode(text.val))

get_image_embedding(img) ==
    IF image_model_raises(img) THEN None ELSE Vec(image_model_encode(img))

----------------------------------------------------------------------------
(* calculate_similarity *)

\* lines 132-138
text_guard(query_text, target_item) ==
    Truthy(query_text) /\ Truthy(target_item.description)

has_text_of(query_text, target_item) ==
    /\ text_guard(query_text, target_item)
    /\ get_text_embedding(query_text) # None
    /\ get_text_embedding(target_item.description) # None

\* lines 141-150
image_guard(query_img, target_item) ==
    query_img # None /\ Truthy(target_item.image_url)

has_image_of(query_img, target_item, get_raises) ==
    /\ image_guard(query_img, target_item)
    /\ load_image_from_url(target_item.image_url, get_raises) # None
    /\ get_image_embedding(query_img) # None
    /\ get_image_embedding(
           load_image_from_url(target_item.image_url, get_raises)) # None

\* a combiner that applies the weights whatever modalities are present
combine_diluted(has_text, has_image, text_sim, image_sim) ==
    Weighted(text_sim, image_sim)

\* lines 153-160: the combined score
combine(has_text, has_image, text_sim, image_sim) ==
    IF has_text /\ has_image THEN Weighted(text_sim, image_sim)
    ELSE IF has_text THEN text_sim
    ELSE IF has_image THEN image_sim
    ELSE Zero

\* a report that tests the similarity's truth value instead of the flag
report_falsy(has, sim) ==
    IF has /\ sim.num # 0 THEN Float(round_percent(sim)) ELSE None

\* lines 166-167: round(float(sim * 100), 2) if has_x else None
report(has, sim) == IF has THEN Float(round_percent(sim)) ELSE None

\* get_raises: whether this call's requests.get for the target image raises
calculate_similarity(query_text, query_img, target_item, get_raises) ==
    LET has_text == has_text_of(query_text, target_item)
        text_sim ==
            IF has_text
            THEN cosine_similarity(get_text_embedding(query_text).val,
                                   get_text_embedding(target_item.description).val)
            ELSE Zero
        has_image == has_image_of(query_img, target_item, get_raises)
        image_sim ==
            IF has_image
            THEN cosine_similarity(
                     get_image_embedding(query_img).val,
                     get_image_embedding(
                         load_image_from_url(target_item.image_url,
                                             get_raises)).val)
            ELSE Zero
        combined_score == combine(has_text, has_image, text_sim, image_sim)
    IN  [overall_score |-> round_percent(combined_score),
         text_similarity |-> report(has_text, text_sim),
         image_similarity |-> report(has_image, image_sim),
         has_text |-> has_text,
         has_image |-> has_image]

\* a scorer handed the query embedding, which computes none itself
query_text_calls_hoisted(query_text, target_item) == <<>>

\* the embedding calls one calculate_similarity makes, in order
query_text_calls(query_text, target_item) ==
    IF text_guard(query_text, target_item)
    THEN <<[fn |-> "get_text_embedding", of |-> "query", line |-> 133]>>
    ELSE <<>>

query_image_calls(query_img, target_item) ==
    IF image_guard(query_img, target_item)
    THEN <<[fn |-> "get_image_embedding", of |-> "query", line |-> 142]>>
    ELSE <<>>

\* the calls made before requests.get for the target image (lines 132-142)
calls_before_get(query_text, query_img, target_item) ==
    query_text_calls(query_text, target_item)
    \o (IF text_guard(query_text, target_item)
        THEN <<[fn |-> "get_text_embedding", of |-> "target", line |-> 134]>>
        ELSE <<>>)
    \o query_image_calls(query_img, target_item)

similarity_calls(query_text, query_img, target_item, get_raises) ==
    calls_before_get(query_text, query_img, target_item)
    \o (IF image_guard(query_img, target_item)
           /\ load_image_from_url(target_item.image_url, get_raises) # None
        THEN <<[fn |-> "get_image_embedding", of |-> "target", line |-> 146]>>
        ELSE <<>>)

----------------------------------------------------------------------------
(* fetch_items_from_firestore *)

\* 'lost_items' and 'found_items'
lost_items == <<108, 111, 115, 116, 95, 105, 116, 101, 109, 115>>
found_items == <<102, 111, 117, 110, 100, 95, 105, 116, 101, 109, 115>>
Collections == {lost_items, found_items}

\* **data.get('metadata', {}) raises TypeError unless the value is a mapping
normalize_raises(doc) == dict_get(doc.metadata, EmptyDict).tag # "dict"

\* lines 110-116: the four named fields, then the document's own metadata,
\* whose keys override them
item_metadata(doc) ==
    dict_get(doc.metadata, EmptyDict).val
      @@ [location |-> dict_get(doc.location, None),
          date |-> dict_get(doc.date, None),
          category |-> dict_get(doc.category, None),
          contactInfo |-> dict_get(doc.contactInfo, None)]

\* the dict appended for one document (lines 105-117)
normalize_item(doc) ==
    [id |-> doc.id,
     description |-> dict_get(doc.description, Str(<<>>)),
     image_url |-> py_or(dict_get(doc.imageUrl, None), dict_get(doc.image_url, None)),
     metadata |-> item_metadata(doc)]

\* the first document whose dict cannot be built, or 0
first_unmappable(docs) ==
    LET bad == {i \in DOMAIN docs : normalize_raises(docs[i])}
    IN  IF bad = {} THEN 0 ELSE Min(bad)

\* how many items are appended before the try block is left: all of them,
\* or those before the stream raises or a document's dict cannot be built
yielded(docs, e) ==
    LET streamed ==
            IF e.stream_raises /\ e.raise_after < Len(docs)
            THEN e.raise_after ELSE Len(docs)
        stop == first_unmappable(SubSeq(docs, 1, streamed))
    IN  IF stop = 0 THEN streamed ELSE stop - 1

fetch_items_from_firestore(collection_name, e) ==
    IF db = "None" THEN <<>>
    ELSE [i \in 1..yielded(store[collection_name], e) |->
              normalize_item(store[collection_name][i])]

----------------------------------------------------------------------------
(* match_items *)

\* 'lost' and 'found'
type_lost == <<108, 111, 115, 116>>
type_found == <<102, 111, 117, 110, 100>>

\* .lower() or .strip() on a JSON null raises AttributeError
parse_raises(req) ==
    req.is_json /\ (req.type = None \/ req.text = None)

query_type_of(req) == lower(dict_get(req.type, Str(<<>>)).val)

query_text_of(req) == strip(dict_get(req.text, Str(<<>>)).val)

\* lines 211-216 (JSON imageUrl; its requests.get is call 0 of the request)
\* and 223-230 (uploaded file)
query_img_of(req, e) ==
    IF req.is_json
    THEN IF req.image # Missing /\ Truthy(req.image)
         THEN load_image_from_url(req.image, 0 \in e.down)
         ELSE None
    ELSE IF req.image.tag \in {"missing", "corrupt"} THEN None ELSE req.image

\* a selection that searches the collection of the query's own kind
search_collection_same(query_type) ==
    IF query_type = type_lost THEN lost_items ELSE found_items

\* line 241
search_collection_of(query_type) ==
    IF query_type = type_lost THEN found_items ELSE lost_items

\* line 260
snippet(description) ==
    IF Len(description) > DescriptionLimit
    THEN SubSeq(description, 1, DescriptionLimit) \o <<46, 46, 46>>
    ELSE description

\* lines 255-264: the entry appended for one candidate
result_entry(query_text, query_img, target, get_raises) ==
    [item_id |-> target.id,
     similarity |-> calculate_similarity(query_text, query_img, target, get_raises),
     description |-> snippet(target.description.val),
     metadata |-> target.metadata,
     has_image |-> target.image_url # None,
     image_url |-> target.image_url]

\* len(target['description']) raises TypeError when the description is None
entry_raises(target) == target.description = None

\* the first candidate whose entry raises, or 0
first_raising(target_items) ==
    LET bad == {i \in 1..Len(target_items) : entry_raises(target_items[i])}
    IN  IF bad = {} THEN 0 ELSE Min(bad)

RECURSIVE insert_desc(_, _)
\* x goes after every element whose score is >= its own (the sort is stable)
insert_desc(sorted, x) ==
    IF sorted = <<>> THEN <<x>>
    ELSE IF Head(sorted).similarity.overall_score >= x.similarity.overall_score
         THEN <<Head(sorted)>> \o insert_desc(Tail(sorted), x)
         ELSE <<x>> \o sorted

RECURSIVE sort_desc(_)
\* results.sort(key=overall_score, reverse=True)
sort_desc(rs) ==
    IF rs = <<>> THEN <<>>
    ELSE insert_desc(sort_desc(SubSeq(rs, 1, Len(rs) - 1)), rs[Len(rs)])

\* results[:20]
top_matches(rs) == SubSeq(rs, 1, IF Len(rs) < TopMatches THEN Len(rs) ELSE TopMatches)

RECURSIVE calls_upto(_, _, _, _, _)
\* the embedding calls of the first k iterations; iteration i makes call i
calls_upto(query_text, query_img, target_items, down, k) ==
    IF k = 0 THEN <<>>
    ELSE calls_upto(query_text, query_img, target_items, down, k - 1)
         \o similarity_calls(query_text, query_img, target_items[k], k \in down)

Outcome(status, body, fs, rs, cs) ==
    [status |-> status, body |-> body, fetched |-> fs, results |-> rs, calls |-> cs]

\* the response of lines 270-275 for the sorted results
ranked(query_type, search_collection, sorted, cs) ==
    Outcome(200,
            [query_type |-> query_type,
             searched_in |-> search_collection,
             total_items |-> Len(sorted),
             matches |-> top_matches(sorted)],
            <<search_collection>>, sorted, cs)

\* the scoring loop, the sort and the response (lines 252-278)
score_and_rank(query_type, query_text, query_img, search_collection, target_items, e) ==
    LET stop == first_raising(target_items)
        scored == IF stop = 0 THEN Len(target_items) ELSE stop
        appended == IF stop = 0 THEN Len(target_items) ELSE stop - 1
        rs == [i \in 1..appended |->
                  result_entry(query_text, query_img, target_items[i], i \in e.down)]
        cs == calls_upto(query_text, query_img, target_items, e.down, scored)
    IN  IF stop # 0
        THEN Outcome(500, [error |-> "TypeError"], <<search_collection>>, rs, cs)
        ELSE ranked(query_type, search_collection, sort_desc(rs), cs)

\* the returns before the fetch (lines 203-237)
early_return(req) ==
    IF db = "None"
    THEN Outcome(500, [error |-> "Firebase not initialized"], <<>>, <<>>, <<>>)
    ELSE IF parse_raises(req)
    THEN Outcome(500, [error |-> "AttributeError"], <<>>, <<>>, <<>>)
    ELSE IF query_type_of(req) = <<>> \/ query_type_of(req) \notin {type_lost, type_found}
    THEN Outcome(400, [error |-> "type must be \"lost\" or \"found\""],
                 <<>>, <<>>, <<>>)
    ELSE Outcome(400, [error |-> "text description is required"], <<>>, <<>>, <<>>)

\* lines 203-237: the handler gets as far as the fetch of line 244
reaches_fetch(req) ==
    /\ db # "None"
    /\ ~parse_raises(req)
    /\ query_type_of(req) \in {type_lost, type_found}
    /\ query_text_of(req) # <<>>

match_items(req, e) ==
    IF ~reaches_fetch(req) THEN early_return(req)
    ELSE
    LET query_type == query_type_of(req)
        query_text == query_text_of(req)
        query_img == query_img_of(req, e)
        search_collection == search_collection_of(query_type)
        target_items == fetch_items_from_firestore(search_collection, e)
    IN  IF Len(target_items) = 0
        THEN Outcome(200,
                     [message |-> <<"No items found in ", search_collection,
                                    " collection">>,
                      matches |-> <<>>],
                     <<search_collection>>, <<>>, <<>>)
        ELSE score_and_rank(query_type, Str(query_text), query_img,
                            search_collection, target_items, e)

\* GET /health
health_check ==
    [status |-> 200,
     body |-> [status |-> "healthy",
               message |-> "Lost and Found AI Matcher is running",
               firebase |-> IF db # "None" THEN "connected" ELSE "disconnected",
               models_loaded |-> TRUE]]

----------------------------------------------------------------------------
(* The requests, the environment of one request, and the stored documents *)

\* 'lost', 'Found', 'Maybe', ''
TypeStrings == {type_lost, <<70, 111, 117, 110, 100>>, <<77, 97, 121, 98, 101>>, <<>>}

\* '', ' \t', 'a\n', '\tb\xa0'
TextStrings == {<<>>, <<32, 9>>, <<97, 10>>, <<9, 98, 160>>}

\* an uploaded file PIL cannot open
Corrupt == [tag |-> "corrupt"]

JsonRequests ==
    [route : {"/match"}, is_json : {TRUE},
     type : {Missing, None} \cup {Str(t) : t \in TypeStrings},
     text : {Missing, None} \cup {Str(t) : t \in TextStrings},
     image : {Missing, None, Str(u1), Str(u3)}]

FormRequests ==
    [route : {"/match"}, is_json : {FALSE},
     type : {Missing} \cup {Str(t) : t \in TypeStrings},
     text : {Missing} \cup {Str(t) : t \in TextStrings},
     image : {Missing, Corrupt, Img("imgB")}]

Requests == JsonRequests \cup FormRequests

NoRequest == [route |-> "none"]

QuietEnv == [down |-> {}, stream_raises |-> FALSE, raise_after |-> 0]

\* the outcomes of reading the collection (102-104): the stream ends, or
\* raises after raise_after documents
Streams ==
    {s \in [stream_raises : BOOLEAN, raise_after : 0..MaxFailAt] :
        ~s.stream_raises => s.raise_after = 0}

\* whether one more requests.get may raise: call 0 is the one for the query
\* image (line 216), call k the one for the k-th candidate (line 143)
may_fail(k, down) == k <= MaxDownAt /\ Cardinality(down) < MaxDown

NoResponse == [status |-> 0, body |-> [idle |-> TRUE]]

\* doc.to_dict() of a document that has only these three fields, if any;
\* the descriptions below are 'a' = <<97>>, 'b', 'c', 'd', 'z' and '\n '
Doc(description, imageUrl, image_url) ==
    [description |-> description, imageUrl |-> imageUrl, image_url |-> image_url,
     location |-> Missing, date |-> Missing, category |-> Missing,
     contactInfo |-> Missing, metadata |-> Missing]

DocA == [Doc(Str(<<97>>), Missing, Missing) EXCEPT !.date = Str(<<49>>)]
DocB == Doc(Str(<<98>>), Str(u1), Missing)
DocC == [Doc(Str(<<99>>), Missing, Str(u2)) EXCEPT !.contactInfo = None]
DocD == Doc(Str(<<100>>), None, Str(u4))
DocZ == Doc(Str(<<122>>), Str(<<>>), Missing)
DocNoText == Doc(Missing, Str(u2), Missing)
DocBlank == Doc(Str(<<10, 32>>), Str(u3), Missing)
DocNull == Doc(None, Str(u1), Missing)
\* a document whose own metadata overrides a named field and adds a key
DocMeta ==
    [Doc(Str(<<97>>), Str(u1), Missing) EXCEPT
        !.location = Str(<<104>>),
        !.category = Str(<<107>>),
        !.metadata = Dict([location |-> Str(<<103>>), color |-> Str(<<114>>)])]
DocTwin == [Doc(Str(<<97>>), Str(u1), Missing) EXCEPT !.metadata = EmptyDict]
\* a document whose metadata field is null
DocNullMeta == [Doc(Str(<<99>>), Missing, Missing) EXCEPT !.metadata = None]

Patterns ==
    {<<DocA, DocB, DocC>>,
     <<DocNoText, DocBlank, DocD, DocZ>>,
     <<DocB, DocNull, DocA>>,
     <<DocD, DocC, DocA, DocB>>,
     <<DocMeta, DocTwin, DocNullMeta, DocB>>}

Sizes == {0, 1, SmallDocs, MaxDocs}

\* a collection of n documents whose contents repeat the pattern
collection_of(pattern, n) ==
    [i \in 1..n |-> [id |-> i] @@ pattern[((i - 1) % Len(pattern)) + 1]]

----------------------------------------------------------------------------
(* The state machine *)

Init ==
    /\ db \in {"None", "client"}
    /\ \E c \in Collections, p \in Patterns, n \in Sizes, m \in {0, 1} :
          store = [x \in Collections |->
                      IF x = c THEN collection_of(p, n)
                      ELSE collection_of(<<DocA, DocB, DocC>>, m)]
    /\ request = NoRequest
    /\ pc = "idle"
    /\ env = QuietEnv
    /\ response = NoResponse
    /\ fetched = <<>>
    /\ results = <<>>
    /\ emb_calls = <<>>
    /\ health = NoResponse
    /\ others = 0

\* the handler returns: the response is made and the request's locals are
\* as the handler leaves them
Return(outcome) ==
    \E out \in {outcome} :
        /\ pc' = "done"
        /\ response' = [status |-> out.status, body |-> out.body]
        /\ fetched' = out.fetched
        /\ results' = out.results
        /\ emb_calls' = out.calls

\* lines 203-216: the handler gets as far as requests.get for the query image
waits_for_query_image(req) ==
    /\ db # "None"
    /\ ~parse_raises(req)
    /\ req.is_json /\ req.image # Missing /\ Truthy(req.image)

\* lines 233-244: with the query parsed the handler validates it and calls
\* the fetch, which waits for the stream, or returns an error
Validate(req) ==
    IF reaches_fetch(req)
    THEN /\ pc' = "stream"
         /\ fetched' = <<search_collection_of(query_type_of(req))>>
         /\ UNCHANGED <<response, results, emb_calls>>
    ELSE Return(early_return(req))

\* the next candidate after the i-th for whose image the scorer calls
\* requests.get (line 143), or 0: the loop ends at the first candidate
\* whose entry raises
next_wait(query_img, target_items, i) ==
    LET stop == first_raising(target_items)
        scored == IF stop = 0 THEN Len(target_items) ELSE stop
        waits == {k \in (i + 1)..scored : image_guard(query_img, target_items[k])}
    IN  IF waits = {} THEN 0 ELSE Min(waits)

\* lines 252-278 from candidate i + 1 on: the loop runs until the scorer
\* waits for a candidate's image, or to the handler's return
Score(req, e, i) ==
    LET query_text == Str(query_text_of(req))
        query_img == query_img_of(req, e)
        target_items ==
            fetch_items_from_firestore(search_collection_of(query_type_of(req)), e)
        k == next_wait(query_img, target_items, i)
    IN  IF k = 0 THEN Return(match_items(req, e))
        ELSE /\ pc' = "get_target"
             /\ results' = [j \in 1..(k - 1) |->
                               result_entry(query_text, query_img, target_items[j],
                                            j \in e.down)]
             /\ emb_calls' =
                   calls_upto(query_text, query_img, target_items, e.down, k - 1)
                   \o calls_before_get(query_text, query_img, target_items[k])
             /\ UNCHANGED <<response, fetched>>

\* POST /match arrives: the handler runs to its first wait or to its return
Arrive ==
    /\ pc = "idle"
    /\ \E req \in Requests :
          /\ request' = req
          /\ IF waits_for_query_image(req)
             THEN /\ pc' = "get_query"
                  /\ UNCHANGED <<response, fetched, results, emb_calls>>
             ELSE Validate(req)
    /\ UNCHANGED <<db, store, env, health, others>>

\* requests.get for the query image (line 216) returns or raises
QueryImage ==
    /\ pc = "get_query"
    /\ \E e \in {[env EXCEPT !.down = IF raises THEN @ \cup {0} ELSE @] :
                    raises \in {r \in BOOLEAN : r => may_fail(0, env.down)}} :
          env' = e /\ Validate(request)
    /\ UNCHANGED <<db, store, request, health, others>>

\* the stream of the collection (102-104) ends or raises; scoring begins
Streamed ==
    /\ pc = "stream"
    /\ \E e \in {[env EXCEPT !.stream_raises = s.stream_raises,
                              !.raise_after = s.raise_after] : s \in Streams} :
          env' = e /\ Score(request, e, 0)
    /\ UNCHANGED <<db, store, request, health, others>>

\* requests.get for the image of the candidate being scored (line 143)
\* returns or raises; scoring goes on
TargetImage ==
    /\ pc = "get_target"
    /\ \E k \in {Len(results) + 1} :
       \E e \in {[env EXCEPT !.down = IF raises THEN @ \cup {k} ELSE @] :
                    raises \in {r \in BOOLEAN : r => may_fail(k, env.down)}} :
          env' = e /\ Score(request, e, k)
    /\ UNCHANGED <<db, store, request, health, others>>

\* the response is sent and the request context is dropped
Done ==
    /\ pc = "done"
    /\ pc' = "idle"
    /\ request' = NoRequest
    /\ env' = QuietEnv
    /\ response' = NoResponse
    /\ fetched' = <<>>
    /\ results' = <<>>
    /\ emb_calls' = <<>>
    /\ UNCHANGED <<db, store, health, others>>

\* GET /health from another client, answered in its own thread wherever
\* the /match handler is
Health ==
    /\ health = NoResponse
    /\ health' = health_check
    /\ UNCHANGED <<db, store, request, pc, env, response, fetched, results,
                   emb_calls, others>>

\* the /health answer is sent
HealthDone ==
    /\ health # NoResponse
    /\ health' = NoResponse
    /\ UNCHANGED <<db, store, request, pc, env, response, fetched, results,
                   emb_calls, others>>

\* the threaded server takes up another /match request
OtherArrives ==
    /\ others < MaxOthers
    /\ others' = others + 1
    /\ UNCHANGED <<db, store, request, pc, env, response, fetched, results,
                   emb_calls, health>>

\* another /match request is answered; its handler wrote no module state
OtherLeaves ==
    /\ others > 0
    /\ others' = others - 1
    /\ UNCHANGED <<db, store, request, pc, env, response, fetched, results,
                   emb_calls, health>>

Next ==
    \/ Arrive \/ QueryImage \/ Streamed \/ TargetImage \/ Done
    \/ Health \/ HealthDone \/ OtherArrives \/ OtherLeaves

Spec == Init /\ [][Next]_vars

----------------------------------------------------------------------------
(* Vocabulary of the properties *)

\* a /match request has been handled and its response is in `response`
Handled == pc = "done"

TypeOk == request.type.tag = "str" /\ lower(request.type.val) \in {type_lost, type_found}

TextOk == request.text.tag = "str" /\ strip(request.text.val) # <<>>

\* the collection of the opposite kind
Opposite ==
    CASE lower(request.type.val) = type_lost -> found_items
      [] lower(request.type.val) = type_found -> lost_items

\* the request passed validation with the repository initialized
Valid == Handled /\ db # "None" /\ TypeOk /\ TextOk

QueryText == Str(query_text_of(request))
QueryImg == query_img_of(request, env)

\* the candidate a result was computed for
CandidateOf(r) == normalize_item(store[fetched[1]][r.item_id])

\* the fetch left its try block because a document's metadata is no mapping
MetadataRaised ==
    LET docs == store[fetched[1]]
        streamed == IF env.stream_raises /\ env.raise_after < Len(docs)
                    THEN env.raise_after ELSE Len(docs)
    IN  \E i \in 1..streamed : normalize_raises(docs[i])

\* requests.get raised for the image of the candidate with this id
GetRaised(id) == id \in env.down

\* the candidates the fetch returned
Fetched == [i \in 1..yielded(store[Opposite], env) |-> normalize_item(store[Opposite][i])]

TextCos(r) ==
    cosine_similarity(get_text_embedding(QueryText).val,
                      get_text_embedding(CandidateOf(r).description).val)

ImageCos(r) ==
    cosine_similarity(
        get_image_embedding(QueryImg).val,
        get_image_embedding(load_image_from_url(CandidateOf(r).image_url,
                                                GetRaised(r.item_id))).val)

Abs(x) == IF x < 0 THEN -x ELSE x

NeitherOrOne(r) ==
    /\ (~r.has_text /\ ~r.has_image) => r.overall_score = 0
    /\ (r.has_text /\ ~r.has_image) => r.overall_score = r.text_similarity.val
    /\ (~r.has_text /\ r.has_image) => r.overall_score = r.image_similarity.val

\* 100 * (30*t + 70*i) as the fraction WeightedNum / WeightedDen
WeightedNum(r) ==
    3000 * TextCos(r).num * ImageCos(r).den + 7000 * ImageCos(r).num * TextCos(r).den
WeightedDen(r) == TextCos(r).den * ImageCos(r).den

----------------------------------------------------------------------------
(* C1 *)

\* C1 as stated: with neither modality evaluated overall_score is 0, with
\* exactly one it equals that modality's reported similarity, and with both
\* it equals 30*text_sim + 70*image_sim of the two cosines, exactly.
C1_Original ==
    Handled =>
      \A k \in DOMAIN results :
        LET r == results[k].similarity IN
          /\ NeitherOrOne(r)
          /\ (r.has_text /\ r.has_image) =>
                r.overall_score * WeightedDen(results[k]) = WeightedNum(results[k])

\* C1 amended: as above, but with both modalities evaluated overall_score is
\* 30*text_sim + 70*image_sim rounded to two decimal places (it is within
\* half a hundredth of the exact value).
C1_Rounded ==
    Handled =>
      \A k \in DOMAIN results :
        LET r == results[k].similarity IN
          /\ NeitherOrOne(r)
          /\ (r.has_text /\ r.has_image) =>
                2 * Abs(r.overall_score * WeightedDen(results[k])
                          - WeightedNum(results[k]))
                   <= WeightedDen(results[k])

\* a response holding a text-only result, an image-only result and a result
\* with both modalities whose weighted sum needed rounding
C1_Witness ==
    /\ Handled
    /\ \E k \in DOMAIN results :
          results[k].similarity.has_text /\ ~results[k].similarity.has_image
          /\ results[k].similarity.overall_score # 0
    /\ \E k \in DOMAIN results :
          /\ results[k].similarity.has_text /\ results[k].similarity.has_image
          /\ results[k].similarity.overall_score * WeightedDen(results[k])
               # WeightedNum(results[k])

----------------------------------------------------------------------------
(* C2 *)

Ranked(ms) ==
    \A i, j \in DOMAIN ms :
        i < j => ms[i].similarity.overall_score >= ms[j].similarity.overall_score

\* C2: every successful /match response has its matches sorted by
\* overall_score non-increasing, at most 20 of them, and a total_items equal
\* to the number of records of the searched collection.
C2_Ranking ==
    (Handled /\ response.status = 200) =>
        /\ Ranked(response.body.matches)
        /\ Len(response.body.matches) <= 20
        /\ "total_items" \in DOMAIN response.body =>
              response.body.total_items = Len(store[Opposite])

----------------------------------------------------------------------------
(* C3 *)

\* C3: a /match request whose type is not lost or found, or whose text is
\* empty after trimming, is answered 400 with an error message and reaches
\* neither the collection fetch nor the scoring.
C3_ValidationError ==
    (Handled /\ (~TypeOk \/ ~TextOk)) =>
        /\ response.status = 400
        /\ "error" \in DOMAIN response.body
        /\ fetched = <<>>
        /\ results = <<>>
        /\ emb_calls = <<>>

----------------------------------------------------------------------------
(* C4 *)

\* C4: a /match request that finds the repository uninitialized, or whose
\* candidate fetch raises while the collection is read, is answered 500.
C4_RepositoryUnavailable ==
    (Handled /\ (db = "None"
                   \/ (fetched # <<>> /\ (env.stream_raises \/ MetadataRaised)))) =>
        response.status = 500

----------------------------------------------------------------------------
(* C5 *)

\* C5: a valid /match request whose target collection is empty is answered
\* without error, with matches = [] and total_items = 0.
C5_EmptyCollection ==
    (Valid /\ Len(store[Opposite]) = 0) =>
        /\ response.status = 200
        /\ response.body.matches = <<>>
        /\ "total_items" \in DOMAIN response.body
        /\ response.body.total_items = 0

----------------------------------------------------------------------------
(* C6 *)

\* the score of candidate c for the query without its image
TextOnlyScore(c) == calculate_similarity(QueryText, None, c, FALSE).overall_score

\* the candidate's image reference could not be fetched
ImageUnreachable(c) == Truthy(c.image_url) /\ GetRaised(c.id)

\* C6: scoring never aborts the batch: every fetched candidate has exactly one
\* result, a candidate whose image cannot be fetched has image_similarity
\* absent and its text-only score, and every other result is what that
\* candidate scores on its own.
C6_Isolation ==
    (Valid /\ Len(Fetched) > 0) =>
        /\ response.status = 200
        /\ Len(results) = Len(Fetched)
        /\ \A i \in DOMAIN Fetched : \E k \in DOMAIN results : results[k].item_id = Fetched[i].id
        /\ \A k \in DOMAIN results :
              LET c == CandidateOf(results[k]) IN
                /\ ImageUnreachable(c) =>
                      /\ results[k].similarity.image_similarity = None
                      /\ results[k].similarity.overall_score = TextOnlyScore(c)
                /\ results[k].similarity
                      = calculate_similarity(QueryText, QueryImg, c, GetRaised(c.id))

----------------------------------------------------------------------------
(* C7 *)

QueryCalls(fn) ==
    Cardinality({i \in DOMAIN emb_calls :
                    emb_calls[i].fn = fn /\ emb_calls[i].of = "query"})

\* the number of candidates calculate_similarity ran for
Scored ==
    Len(results) + (IF response.status = 500 /\ fetched # <<>> THEN 1 ELSE 0)

\* C7 as stated: in a request that scored candidates the query text embedding,
\* and the query image embedding when the query has an image, is computed
\* exactly once.
C7_Original ==
    (Valid /\ response.status = 200 /\ Len(results) > 0) =>
        /\ QueryCalls("get_text_embedding") = 1
        /\ QueryImg # None => QueryCalls("get_image_embedding") = 1

\* C7 amended: the query text embedding is computed once for every scored
\* candidate that has a non-empty description, and the query image embedding
\* once for every scored candidate that has an image reference when the
\* query has an image; a request that scores no candidate computes none.
C7_PerCandidate ==
    Handled =>
        IF Valid /\ fetched # <<>>
        THEN /\ QueryCalls("get_text_embedding")
                  = Cardinality({i \in 1..Scored : Truthy(Fetched[i].description)})
             /\ QueryCalls("get_image_embedding")
                  = Cardinality({i \in 1..Scored :
                                    QueryImg # None /\ Truthy(Fetched[i].image_url)})
        ELSE emb_calls = <<>>

\* a ranked response over more than 20 candidates for which the query's text
\* and image were each embedded more than 20 times
C7_Witness ==
    /\ Valid /\ response.status = 200
    /\ Len(results) > 20
    /\ QueryCalls("get_text_embedding") > 20
    /\ QueryCalls("get_image_embedding") > 2

----------------------------------------------------------------------------
(* C8 *)

InPercent(x) == 0 <= x /\ x <= 10000

\* C8: in every result overall_score lies in [0,100], and text_similarity
\* and image_similarity, when present, lie in [0,100].
C8_Range ==
    Handled =>
      \A k \in DOMAIN results :
        LET r == results[k].similarity IN
          /\ InPercent(r.overall_score)
          /\ r.text_similarity # None => InPercent(r.text_similarity.val)
          /\ r.image_similarity # None => InPercent(r.image_similarity.val)

----------------------------------------------------------------------------
(* C9 *)

NonBlank(v) == v.tag = "str" /\ \E i \in DOMAIN v.val : v.val[i] \notin Whitespace

\* both texts are present and both embed
TextEvaluated(c) == NonBlank(QueryText) /\ NonBlank(c.description)

\* both images are present, the candidate's was fetched, and both embed
ImageEvaluated(c) ==
    /\ QueryImg # None
    /\ c.image_url.tag = "str" /\ c.image_url.val # <<>>
    /\ ~GetRaised(c.id)
    /\ QueryImg.val # "imgX"
    /\ image_at(c.image_url.val).val # "imgX"

\* C9: text_similarity is absent exactly when the text modality was not
\* evaluated, image_similarity is absent exactly when the image modality was
\* not evaluated, and an evaluated modality whose cosine is 0 is reported as
\* the number 0.
C9_AbsentIffNotEvaluated ==
    Handled =>
      \A k \in DOMAIN results :
        LET r == results[k].similarity
            c == CandidateOf(results[k])
        IN  /\ (r.text_similarity = None) <=> ~TextEvaluated(c)
            /\ (r.image_similarity = None) <=> ~ImageEvaluated(c)
            /\ (TextEvaluated(c) /\ TextCos(results[k]).num = 0)
                  => r.text_similarity = Float(0)
            /\ (ImageEvaluated(c) /\ ImageCos(results[k]).num = 0)
                  => r.image_similarity = Float(0)

\* a response with a candidate whose text and image cosines are both 0 and
\* reported as 0, and a candidate whose image could not be fetched
C9_Witness ==
    /\ Handled
    /\ \E k \in DOMAIN results :
          /\ results[k].similarity.text_similarity = Float(0)
          /\ results[k].similarity.image_similarity = Float(0)
    /\ \E k \in DOMAIN results :
          /\ ImageUnreachable(CandidateOf(results[k]))
          /\ results[k].similarity.image_similarity = None
          /\ results[k].similarity.text_similarity # None

----------------------------------------------------------------------------
(* C10 *)

\* C10: a valid request of type lost fetches from found_items only and one of
\* type found from lost_items only, every result is computed from a record
\* of that collection, and searched_in names the collection fetched.
C10_OppositeCollection ==
    Handled =>
        /\ \A i \in DOMAIN fetched : TypeOk /\ fetched[i] = Opposite
        /\ Valid => fetched = <<Opposite>>
        /\ \A k \in DOMAIN results :
              /\ results[k].item_id \in DOMAIN store[Opposite]
              /\ results[k].image_url
                   = normalize_item(store[Opposite][results[k].item_id]).image_url
              /\ results[k].metadata
                   = normalize_item(store[Opposite][results[k].item_id]).metadata
        /\ "searched_in" \in DOMAIN response.body =>
              fetched = <<response.body.searched_in>>

\* a request of type lost answered with matches from found_items while
\* lost_items holds records too
C10_Witness ==
    /\ Valid
    /\ lower(request.type.val) = type_lost
    /\ response.status = 200
    /\ "searched_in" \in DOMAIN response.body
    /\ response.body.searched_in = found_items
    /\ Len(response.body.matches) > 1
    /\ Len(store[lost_items]) > 0

====
